---- MODULE Spec2Model ----
(***************************************************************************)
(* A model of the todo API: the user directory, the OTP store used by the  *)
(* password-reset flow and the task store, with the request handlers of    *)
(* src/routes/user_routes.py and src/routes/todo_routes.py as actions.     *)
(*                                                                         *)
(* The relational store is modelled as three tables of committed rows.     *)
(* Every handler runs in its own session (src/config/database.py): a read  *)
(* sees the committed rows, the handler's writes are buffered and applied   *)
(* together by its db.commit().  A handler that issues a statement, lets   *)
(* other requests run and commits later is split at that point, so that    *)
(* concurrent requests interleave between a handler's read and its commit. *)
(***************************************************************************)
EXTENDS Integers, Sequences, FiniteSets, TLC

\* ------------------------------------------------------------------ bounds
MaxTime == 15
TickMinutes == 15
MaxOtpId == 2
MaxTodoId == 2
NumSalts == 4

\* ------------------------------------------------------- program constants
OTP_EXPIRY_MINUTES == 15
JWT_EXPIRATION_MINUTES == 30

\* ------------------------------------------------------------ input domains
Procs == {"r1", "r2"}
Emails == {"a@x.com", "b@x.com", "c@x.com"}
Usernames == {"alice", "bob"}
Passwords == {"password1", "password2"}
Codes == {"000000", "123456"}
Titles == {"buy milk", "walk dog"}
Salts == 1..NumSalts

\* Python's None, and the three values a nullable boolean column can hold.
None == "None"
PyBools == {"True", "False"}
OptBools == PyBools \cup {None}

VARIABLES
  users,         \* table users: rows [id, email, username, hashed_password, is_active]
  otps,          \* table otps: rows [id, email, otp, expires_at, is_used]
  todos,         \* table todos: rows [id, title, completed, user_id]; the
                 \* description column is written and read as title is
  next_otp_id,   \* AUTO_INCREMENT counter of otps
  next_todo_id,  \* AUTO_INCREMENT counter of todos
  now,           \* datetime.utcnow(), in minutes
  pc,            \* per request slot: where its handler stands
  loc,           \* per request slot: the handler's local variables
  resp           \* the response last sent to a client

vars == <<users, otps, todos, next_otp_id, next_todo_id, now, pc, loc, resp>>

db == <<users, otps, todos>>

NoLoc == [handler |-> "none"]
NoBody == [kind |-> "none"]

\* A response: the HTTP status, detail and body the client receives, the
\* request it answers, and in `side` what the handler did besides (the
\* background task it scheduled).
Respond(op, req, status, detail, body, side) ==
  [op |-> op, req |-> req, status |-> status, detail |-> detail, body |-> body,
   side |-> side]

Response(op, req, status, detail, body) ==
  Respond(op, req, status, detail, body, NoBody)

\* ------------------------------------------------------- Credential Store
\* A bcrypt hash embeds its random salt; the salt drawn is one no stored or
\* in-flight hash carries.
StoredSalts ==
  {u.hashed_password.salt : u \in users}
    \cup {loc[p].hashed_password.salt :
            p \in {q \in Procs : pc[q] \in {"reg_insert", "rp_commit"}}}

FreshSalts == Salts \ StoredSalts

get_password_hash(password, salt) == [pw |-> password, salt |-> salt]

verify_password(plain_password, hashed_password) ==
  hashed_password.pw = plain_password

\* ------------------------------------------------------------ Token Service
create_access_token(sub) ==
  [sub |-> sub, exp |-> now + JWT_EXPIRATION_MINUTES, signed |-> TRUE]

\* jwt.decode: the subject of a well-signed, unexpired token, else None.
jwt_decode(token) ==
  IF token.signed /\ token.exp >= now THEN token.sub ELSE None

\* --------------------------------------------------------------- queries
UserByEmail(email) == {u \in users : u.email = email}

UserByUsername(username) == {u \in users : u.username = username}

\* The filter with the email condition left out.
MatchingOtps_AnyEmail(email, otp) ==
  {o \in otps : /\ o.otp = otp
                /\ o.is_used = FALSE
                /\ o.expires_at > now}

\* The filter with a code still accepted at the instant it expires.
MatchingOtps_Inclusive(email, otp) ==
  {o \in otps : /\ o.email = email
                /\ o.otp = otp
                /\ o.is_used = FALSE
                /\ o.expires_at >= now}

\* The filter shared by verify_otp and reset_password.
MatchingOtps(email, otp) ==
  {o \in otps : /\ o.email = email
                /\ o.otp = otp
                /\ o.is_used = FALSE
                /\ o.expires_at > now}

UserResponse(u) ==
  [kind |-> "user", id |-> u.id, email |-> u.email, username |-> u.username,
   is_active |-> u.is_active]

Init ==
  /\ users = {}
  /\ otps = {}
  /\ todos = {}
  /\ next_otp_id = 1
  /\ next_todo_id = 1
  /\ now = 0
  /\ pc = [p \in Procs |-> "idle"]
  /\ loc = [p \in Procs |-> NoLoc]
  /\ resp = Response("none", NoLoc, 0, "", NoBody)

\* The store after two registrations: alice and bob, both active.
SeededInit ==
  /\ users = {[id |-> 1, email |-> "a@x.com", username |-> "alice",
               hashed_password |-> get_password_hash("password1", 1),
               is_active |-> TRUE],
              [id |-> 2, email |-> "b@x.com", username |-> "bob",
               hashed_password |-> get_password_hash("password2", 2),
               is_active |-> TRUE]}
  /\ otps = {}
  /\ todos = {}
  /\ next_otp_id = 1
  /\ next_todo_id = 1
  /\ now = 0
  /\ pc = [p \in Procs |-> "idle"]
  /\ loc = [p \in Procs |-> NoLoc]
  /\ resp = Response("none", NoLoc, 0, "", NoBody)

\* ------------------------------------------------------------ registration
\* POST /users/register, first query: is the email taken?
RegisterCheckEmail(p, email, username, password) ==
  /\ pc[p] = "idle"
  /\ IF UserByEmail(email) # {}
       THEN /\ resp' = Response("register",
                                [email |-> email, username |-> username],
                                400, "Email already registered", NoBody)
            /\ UNCHANGED <<pc, loc>>
       ELSE /\ pc' = [pc EXCEPT ![p] = "reg_username"]
            /\ loc' = [loc EXCEPT ![p] =
                         [handler |-> "register", email |-> email,
                          username |-> username, password |-> password]]
            /\ UNCHANGED resp
  /\ UNCHANGED <<db, next_otp_id, next_todo_id, now>>

\* second query: is the username taken?  Then the password is hashed.
RegisterCheckUsername(p) ==
  /\ pc[p] = "reg_username"
  /\ IF UserByUsername(loc[p].username) # {}
       THEN /\ resp' = Response("register",
                                [email |-> loc[p].email,
                                 username |-> loc[p].username],
                                400, "Username already taken", NoBody)
            /\ pc' = [pc EXCEPT ![p] = "idle"]
            /\ loc' = [loc EXCEPT ![p] = NoLoc]
       ELSE /\ \E salt \in FreshSalts :
                 /\ \A s \in FreshSalts : salt <= s
                 /\ loc' = [loc EXCEPT ![p] =
                              [handler |-> "register", email |-> loc[p].email,
                               username |-> loc[p].username,
                               hashed_password |->
                                 get_password_hash(loc[p].password, salt)]]
            /\ pc' = [pc EXCEPT ![p] = "reg_insert"]
            /\ UNCHANGED resp
  /\ UNCHANGED <<db, next_otp_id, next_todo_id, now>>

\* The unique indexes of users.email and users.username.
UniqueViolation_Dropped(email, username) == FALSE

UniqueViolation(email, username) ==
  UserByEmail(email) # {} \/ UserByUsername(username) # {}

\* RegisterInsert with the IntegrityError left uncaught: the storage error
\* surfaces as a 500.
RegisterInsert_Uncaught(p) ==
  /\ pc[p] = "reg_insert"
  /\ IF UniqueViolation(loc[p].email, loc[p].username)
       THEN /\ resp' = Response("register",
                                [email |-> loc[p].email,
                                 username |-> loc[p].username],
                                500, "Internal Server Error", NoBody)
            /\ UNCHANGED users
       ELSE LET u == [id |-> Cardinality(users) + 1, email |-> loc[p].email,
                      username |-> loc[p].username,
                      hashed_password |-> loc[p].hashed_password,
                      is_active |-> TRUE]
            IN  /\ users' = users \cup {u}
                /\ resp' = Response("register",
                                    [email |-> u.email, username |-> u.username],
                                    201, "", UserResponse(u))
  /\ pc' = [pc EXCEPT ![p] = "idle"]
  /\ loc' = [loc EXCEPT ![p] = NoLoc]
  /\ UNCHANGED <<otps, todos, next_otp_id, next_todo_id, now>>

\* db.add, db.commit: the insert, refused by a unique index when another
\* request committed the email or the username since the checks.
RegisterInsert(p) ==
  /\ pc[p] = "reg_insert"
  /\ IF UniqueViolation(loc[p].email, loc[p].username)
       THEN /\ resp' = Response("register",
                                [email |-> loc[p].email,
                                 username |-> loc[p].username],
                                400, "Registration failed due to database error",
                                NoBody)
            /\ UNCHANGED users
       ELSE LET u == [id |-> Cardinality(users) + 1, email |-> loc[p].email,
                      username |-> loc[p].username,
                      hashed_password |-> loc[p].hashed_password,
                      is_active |-> TRUE]
            IN  /\ users' = users \cup {u}
                /\ resp' = Response("register",
                                    [email |-> u.email, username |-> u.username],
                                    201, "", UserResponse(u))
  /\ pc' = [pc EXCEPT ![p] = "idle"]
  /\ loc' = [loc EXCEPT ![p] = NoLoc]
  /\ UNCHANGED <<otps, todos, next_otp_id, next_todo_id, now>>

\* ------------------------------------------------------------------- login
\* POST /users/login: one query, no write.
Login(p, email, password) ==
  /\ pc[p] = "idle"
  /\ LET found == UserByEmail(email)
         req == [email |-> email, password |-> password]
     IN  IF found = {} \/ \A u \in found :
                            ~verify_password(password, u.hashed_password)
           THEN resp' = Response("login", req, 401,
                                 "Incorrect email or password", NoBody)
           ELSE \E u \in found :
                  resp' = Response("login", req, 200, "",
                                   [kind |-> "token",
                                    access_token |-> create_access_token(u.email),
                                    token_type |-> "bearer"])
  /\ UNCHANGED <<db, next_otp_id, next_todo_id, now, pc, loc>>

\* ---------------------------------------------------------- password reset
GenericMessage == "If your email is registered, you will receive an OTP"

\* ForgotBegin that tells the caller the email is unknown.
ForgotBegin_Revealing(p, email) ==
  /\ pc[p] = "idle"
  /\ IF UserByEmail(email) = {}
       THEN /\ resp' = Response("forgot_password", [email |-> email], 404,
                                "User not found", NoBody)
            /\ UNCHANGED <<pc, loc>>
       ELSE /\ \E otp \in Codes :
                 loc' = [loc EXCEPT ![p] =
                           [handler |-> "forgot_password", email |-> email,
                            otp |-> otp,
                            expires_at |-> now + OTP_EXPIRY_MINUTES,
                            deleted |-> {o.id : o \in {x \in otps :
                                                         x.email = email}}]]
            /\ pc' = [pc EXCEPT ![p] = "fp_commit"]
            /\ UNCHANGED resp
  /\ UNCHANGED <<db, next_otp_id, next_todo_id, now>>

\* POST /users/forgot-password up to the DELETE statement: the user lookup,
\* the random code, the expiry, and the rows the DELETE removes (removed for
\* others when this session commits).
ForgotBegin(p, email) ==
  /\ pc[p] = "idle"
  /\ IF UserByEmail(email) = {}
       THEN /\ resp' = Response("forgot_password", [email |-> email], 200,
                                GenericMessage, NoBody)
            /\ UNCHANGED <<pc, loc>>
       ELSE /\ \E otp \in Codes :
                 loc' = [loc EXCEPT ![p] =
                           [handler |-> "forgot_password", email |-> email,
                            otp |-> otp,
                            expires_at |-> now + OTP_EXPIRY_MINUTES,
                            deleted |-> {o.id : o \in {x \in otps :
                                                         x.email = email}}]]
            /\ pc' = [pc EXCEPT ![p] = "fp_commit"]
            /\ UNCHANGED resp
  /\ UNCHANGED <<db, next_otp_id, next_todo_id, now>>

\* ForgotCommit's table with the DELETE of line 116 left out.
OtpsAfterForgot_KeepOld(p) ==
  otps \cup {[id |-> next_otp_id, email |-> loc[p].email, otp |-> loc[p].otp,
              expires_at |-> loc[p].expires_at, is_used |-> FALSE]}

\* The otps table once the session's DELETE and INSERT are committed.
OtpsAfterForgot(p) ==
  {o \in otps : o.id \notin loc[p].deleted}
    \cup {[id |-> next_otp_id, email |-> loc[p].email, otp |-> loc[p].otp,
           expires_at |-> loc[p].expires_at, is_used |-> FALSE]}

\* db.add, db.commit, then the email is handed to the background tasks.
ForgotCommit(p) ==
  /\ pc[p] = "fp_commit"
  /\ next_otp_id <= MaxOtpId
  /\ otps' = OtpsAfterForgot(p)
  /\ next_otp_id' = next_otp_id + 1
  /\ resp' = Respond("forgot_password", [email |-> loc[p].email], 200,
                     GenericMessage, NoBody,
                     [kind |-> "send_otp_email",
                      recipient_email |-> loc[p].email, otp |-> loc[p].otp,
                      otp_id |-> next_otp_id, deleted |-> loc[p].deleted,
                      replaced |-> {o.otp : o \in {x \in otps :
                                                    x.id \in loc[p].deleted}}])
  /\ pc' = [pc EXCEPT ![p] = "idle"]
  /\ loc' = [loc EXCEPT ![p] = NoLoc]
  /\ UNCHANGED <<users, todos, next_todo_id, now>>

\* VerifyOtp that marks the code used, as reset_password does.
VerifyOtp_Consuming(p, email, otp) ==
  /\ pc[p] = "idle"
  /\ IF MatchingOtps(email, otp) = {}
       THEN /\ resp' = Response("verify_otp", [email |-> email, otp |-> otp],
                                400, "Invalid or expired OTP", NoBody)
            /\ UNCHANGED otps
       ELSE /\ resp' = Response("verify_otp", [email |-> email, otp |-> otp],
                                200, "OTP verified successfully", NoBody)
            /\ \E o \in MatchingOtps(email, otp) :
                 otps' = (otps \ {o}) \cup {[o EXCEPT !.is_used = TRUE]}
  /\ UNCHANGED <<users, todos, next_otp_id, next_todo_id, now, pc, loc>>

\* POST /users/verify-otp: one query, no write.
VerifyOtp(p, email, otp) ==
  /\ pc[p] = "idle"
  /\ IF MatchingOtps(email, otp) = {}
       THEN resp' = Response("verify_otp", [email |-> email, otp |-> otp],
                             400, "Invalid or expired OTP", NoBody)
       ELSE resp' = Response("verify_otp", [email |-> email, otp |-> otp],
                             200, "OTP verified successfully", NoBody)
  /\ UNCHANGED <<db, next_otp_id, next_todo_id, now, pc, loc>>

\* POST /users/reset-password up to db.commit: the OTP query (first() of the
\* matching rows), the user query, and the two pending attribute writes.
\* No user is ever deleted, so the two queries are taken in one step.
ResetRead(p, email, otp, new_password) ==
  /\ pc[p] = "idle"
  /\ LET req == [email |-> email, otp |-> otp]
     IN  IF MatchingOtps(email, otp) = {}
           THEN /\ resp' = Response("reset_password", req, 400,
                                    "Invalid or expired OTP", NoBody)
                /\ UNCHANGED <<pc, loc>>
           ELSE IF UserByEmail(email) = {}
             THEN /\ resp' = Response("reset_password", req, 404,
                                      "User not found", NoBody)
                  /\ UNCHANGED <<pc, loc>>
             ELSE /\ \E o \in MatchingOtps(email, otp), u \in UserByEmail(email),
                        salt \in FreshSalts :
                       /\ \A s \in FreshSalts : salt <= s
                       /\ loc' = [loc EXCEPT ![p] =
                                    [handler |-> "reset_password",
                                     email |-> email, otp |-> otp,
                                     otp_id |-> o.id, user_id |-> u.id,
                                     hashed_password |->
                                       get_password_hash(new_password, salt)]]
                  /\ pc' = [pc EXCEPT ![p] = "rp_commit"]
                  /\ UNCHANGED resp
  /\ UNCHANGED <<db, next_otp_id, next_todo_id, now>>

\* The users table without the pending password write.
UsersAfterReset_HashNotFlushed(p) == users

\* The users table with the pending write of user.hashed_password applied.
UsersAfterReset(p) ==
  {IF u.id = loc[p].user_id
     THEN [u EXCEPT !.hashed_password = loc[p].hashed_password]
     ELSE u : u \in users}

\* The otps table with the pending write of otp_record.is_used applied.
OtpsAfterReset(p) ==
  {IF o.id = loc[p].otp_id THEN [o EXCEPT !.is_used = TRUE] ELSE o : o \in otps}

\* db.commit of reset_password: both UPDATEs in one transaction.  When the
\* OTP row was deleted meanwhile its UPDATE matches no row, the flush raises
\* and the session is closed without a commit.
ResetCommit(p) ==
  /\ pc[p] = "rp_commit"
  /\ LET req == [email |-> loc[p].email, otp |-> loc[p].otp]
     IN  IF \E o \in otps : o.id = loc[p].otp_id
           THEN /\ users' = UsersAfterReset(p)
                /\ otps' = OtpsAfterReset(p)
                /\ resp' = Response("reset_password", req, 200,
                                    "Password reset successfully", NoBody)
           ELSE /\ resp' = Response("reset_password", req, 500,
                                    "Internal Server Error", NoBody)
                /\ UNCHANGED <<users, otps>>
  /\ pc' = [pc EXCEPT ![p] = "idle"]
  /\ loc' = [loc EXCEPT ![p] = NoLoc]
  /\ UNCHANGED <<todos, next_otp_id, next_todo_id, now>>

\* A request that dies between two statements (the client goes away, the
\* worker fails): get_db closes the session, nothing pending is committed
\* and no response is sent.
Abort(p) ==
  /\ pc[p] # "idle"
  /\ pc' = [pc EXCEPT ![p] = "idle"]
  /\ loc' = [loc EXCEPT ![p] = NoLoc]
  /\ UNCHANGED <<db, next_otp_id, next_todo_id, now, resp>>

\* Time passes.
Tick ==
  /\ now + TickMinutes <= MaxTime
  /\ now' = now + TickMinutes
  /\ UNCHANGED <<db, next_otp_id, next_todo_id, pc, loc, resp>>

\* The emails registration is driven with.
RegEmails == {"a@x.com", "b@x.com"}

RegisterNext ==
  \/ \E p \in Procs, email \in RegEmails, username \in Usernames,
        password \in Passwords : RegisterCheckEmail(p, email, username, password)
  \/ \E p \in Procs : RegisterCheckUsername(p)
  \/ \E p \in Procs : RegisterInsert(p)
  \/ \E p \in Procs, email \in RegEmails, password \in Passwords :
        Login(p, email, password)
  \/ \E p \in Procs : Abort(p)

\* Registration and login against an empty store.
RegisterSpec == Init /\ [][RegisterNext]_vars

\* The emails the reset flow is driven with: a registered and an unknown one.
OtpEmails == {"a@x.com", "c@x.com"}

OtpNext ==
  \/ \E p \in Procs, email \in OtpEmails : ForgotBegin(p, email)
  \/ \E p \in Procs : ForgotCommit(p)
  \/ \E p \in Procs, email \in OtpEmails, otp \in Codes :
        VerifyOtp(p, email, otp)
  \/ \E p \in Procs, email \in OtpEmails, otp \in Codes,
        password \in Passwords : ResetRead(p, email, otp, password)
  \/ \E p \in Procs : ResetCommit(p)
  \/ \E p \in Procs : Abort(p)
  \/ Tick

\* The password-reset flow against the seeded store.
OtpSpec == SeededInit /\ [][OtpNext]_vars

\* One minute passes.
Minute ==
  /\ now + 1 <= MaxTime
  /\ now' = now + 1
  /\ UNCHANGED <<db, next_otp_id, next_todo_id, pc, loc, resp>>

\* The reset flow of one client, one request after the other, on a clock
\* that advances minute by minute.
ExpiryNext ==
  \/ \E email \in OtpEmails : ForgotBegin("r1", email)
  \/ ForgotCommit("r1")
  \/ \E email \in OtpEmails, otp \in Codes : VerifyOtp("r1", email, otp)
  \/ \E email \in OtpEmails, otp \in Codes, password \in Passwords :
        ResetRead("r1", email, otp, password)
  \/ ResetCommit("r1")
  \/ Minute

ExpirySpec == SeededInit /\ [][ExpiryNext]_vars

\* ------------------------------------------------------------------ todos
Unset == "Unset"

\* The bearer tokens requests arrive with: one issued to each email (the
\* third names no user), and one that jwt.decode refuses as expired.
RequestTokens ==
  {create_access_token(e) : e \in Emails}
    \cup {[sub |-> "a@x.com", exp |-> now - 1, signed |-> TRUE]}

\* Depends(get_current_user): the user a token resolves to, or the refusal.
get_current_user(token) ==
  LET email == jwt_decode(token)
      credentials_exception ==
        [ok |-> FALSE, status |-> 401,
         detail |-> "Could not validate credentials", id |-> 0]
  IN  IF email = None THEN credentials_exception
      ELSE IF UserByEmail(email) = {} THEN credentials_exception
      ELSE LET user == CHOOSE u \in UserByEmail(email) : TRUE
           IN  IF ~user.is_active
                 THEN [ok |-> FALSE, status |-> 400, detail |-> "Inactive user",
                       id |-> user.id]
                 ELSE [ok |-> TRUE, status |-> 200, detail |-> "", id |-> user.id]

\* Python's `not` on a nullable boolean: None is falsy.
PyNot(b) == IF b = "True" THEN "False" ELSE "True"

TodoResponse(t) ==
  [kind |-> "todo", id |-> t.id, title |-> t.title,
   completed |-> t.completed, user_id |-> t.user_id]

Denied(op, todo_id, auth) ==
  Response(op, [caller |-> 0, todo_id |-> todo_id], auth.status, auth.detail,
           NoBody)

NotFound(op, todo_id, auth) ==
  Response(op, [caller |-> auth.id, todo_id |-> todo_id], 404, "Todo not found",
           NoBody)

\* The by-id query with the owner filter left out.
FindTodo_AnyOwner(todo_id, user_id) == {t \in todos : t.id = todo_id}

\* The query of read_todo, update_todo, delete_todo and toggle_todo_status.
FindTodo(todo_id, user_id) ==
  {t \in todos : t.id = todo_id /\ t.user_id = user_id}

\* POST /todos.  A completed of None is left out of the INSERT, so that the
\* column default applies.
CreateTodo(token, title, completed) ==
  /\ next_todo_id <= MaxTodoId
  /\ LET auth == get_current_user(token)
         t == [id |-> next_todo_id, title |-> title,
               completed |-> IF completed = None THEN "False" ELSE completed,
               user_id |-> auth.id]
     IN  IF ~auth.ok
           THEN /\ resp' = Denied("create_todo", 0, auth)
                /\ UNCHANGED <<todos, next_todo_id>>
           ELSE /\ todos' = todos \cup {t}
                /\ next_todo_id' = next_todo_id + 1
                /\ resp' = Response("create_todo",
                                    [caller |-> auth.id, todo_id |-> t.id],
                                    201, "", TodoResponse(t))
  /\ UNCHANGED <<users, otps, next_otp_id, now, pc, loc>>

RECURSIVE SortById(_)
\* The rows of a result set in primary-key order.
SortById(rows) ==
  IF rows = {} THEN <<>>
  ELSE LET first == CHOOSE t \in rows : \A u \in rows : t.id <= u.id
       IN  <<first>> \o SortById(rows \ {first})

\* offset(skip).limit(limit)
Page(seq, skip, limit) ==
  SubSeq(seq, skip + 1, IF skip + limit < Len(seq) THEN skip + limit
                        ELSE Len(seq))

\* GET /todos
ReadTodos(token, skip, limit, completed) ==
  /\ LET auth == get_current_user(token)
         owned == {t \in todos : t.user_id = auth.id}
         rows == IF completed = None THEN owned
                 ELSE {t \in owned : t.completed = completed}
         page == Page(SortById(rows), skip, limit)
     IN  IF ~auth.ok
           THEN resp' = Denied("read_todos", 0, auth)
           ELSE resp' = Response("read_todos",
                                 [caller |-> auth.id, todo_id |-> 0], 200, "",
                                 [kind |-> "todos",
                                  items |-> [i \in 1..Len(page) |->
                                               TodoResponse(page[i])]])
  /\ UNCHANGED <<db, next_otp_id, next_todo_id, now, pc, loc>>

\* GET /todos/{todo_id}
ReadTodo(token, todo_id) ==
  /\ LET auth == get_current_user(token)
     IN  IF ~auth.ok THEN resp' = Denied("read_todo", todo_id, auth)
         ELSE IF FindTodo(todo_id, auth.id) = {}
           THEN resp' = NotFound("read_todo", todo_id, auth)
           ELSE \E t \in FindTodo(todo_id, auth.id) :
                  resp' = Response("read_todo",
                                   [caller |-> auth.id, todo_id |-> todo_id],
                                   200, "", TodoResponse(t))
  /\ UNCHANGED <<db, next_otp_id, next_todo_id, now, pc, loc>>

\* setattr for every field the request sets (exclude_unset).
Merge(t, title, completed) ==
  [t EXCEPT !.title = IF title = Unset THEN @ ELSE title,
            !.completed = IF completed = Unset THEN @ ELSE completed]

\* PUT /todos/{todo_id}.  A title of None violates the column's NOT NULL:
\* the commit raises and nothing is written.
UpdateTodo(token, todo_id, title, completed) ==
  /\ LET auth == get_current_user(token)
         req == [caller |-> auth.id, todo_id |-> todo_id]
     IN  IF ~auth.ok
           THEN /\ resp' = Denied("update_todo", todo_id, auth)
                /\ UNCHANGED todos
         ELSE IF FindTodo(todo_id, auth.id) = {}
           THEN /\ resp' = NotFound("update_todo", todo_id, auth)
                /\ UNCHANGED todos
         ELSE IF title = None
           THEN /\ resp' = Response("update_todo", req, 500,
                                    "Internal Server Error", NoBody)
                /\ UNCHANGED todos
           ELSE \E t \in FindTodo(todo_id, auth.id) :
                  LET n == Merge(t, title, completed)
                  IN  /\ todos' = (todos \ {t}) \cup {n}
                      /\ resp' = Response("update_todo", req, 200, "",
                                          TodoResponse(n))
  /\ UNCHANGED <<users, otps, next_otp_id, next_todo_id, now, pc, loc>>

\* DELETE /todos/{todo_id}
DeleteTodo(token, todo_id) ==
  /\ LET auth == get_current_user(token)
     IN  IF ~auth.ok
           THEN /\ resp' = Denied("delete_todo", todo_id, auth)
                /\ UNCHANGED todos
         ELSE IF FindTodo(todo_id, auth.id) = {}
           THEN /\ resp' = NotFound("delete_todo", todo_id, auth)
                /\ UNCHANGED todos
           ELSE /\ todos' = todos \ FindTodo(todo_id, auth.id)
                /\ resp' = Response("delete_todo",
                                    [caller |-> auth.id, todo_id |-> todo_id],
                                    204, "", NoBody)
  /\ UNCHANGED <<users, otps, next_otp_id, next_todo_id, now, pc, loc>>

\* PUT /todos/{todo_id}/toggle
ToggleTodo(token, todo_id) ==
  /\ LET auth == get_current_user(token)
     IN  IF ~auth.ok
           THEN /\ resp' = Denied("toggle_todo_status", todo_id, auth)
                /\ UNCHANGED todos
         ELSE IF FindTodo(todo_id, auth.id) = {}
           THEN /\ resp' = NotFound("toggle_todo_status", todo_id, auth)
                /\ UNCHANGED todos
           ELSE \E t \in FindTodo(todo_id, auth.id) :
                  LET n == [t EXCEPT !.completed = PyNot(t.completed)]
                  IN  /\ todos' = (todos \ {t}) \cup {n}
                      /\ resp' = Respond("toggle_todo_status",
                                         [caller |-> auth.id,
                                          todo_id |-> todo_id],
                                         200, "", TodoResponse(n),
                                         [kind |-> "toggled",
                                          before |-> t.completed])
  /\ UNCHANGED <<users, otps, next_otp_id, next_todo_id, now, pc, loc>>

\* The ids requests name: every id the table can hold and one it never holds.
TodoIds == 1..(MaxTodoId + 1)

TodoNext ==
  \/ \E token \in RequestTokens, title \in Titles, completed \in OptBools :
        CreateTodo(token, title, completed)
  \/ \E token \in RequestTokens, skip \in {0, 1}, limit \in {1, 100},
        completed \in OptBools : ReadTodos(token, skip, limit, completed)
  \/ \E token \in RequestTokens, todo_id \in TodoIds : ReadTodo(token, todo_id)
  \/ \E token \in RequestTokens, todo_id \in TodoIds,
        title \in Titles \cup {Unset, None},
        completed \in OptBools \cup {Unset} :
        UpdateTodo(token, todo_id, title, completed)
  \/ \E token \in RequestTokens, todo_id \in TodoIds : DeleteTodo(token, todo_id)
  \/ \E token \in RequestTokens, todo_id \in TodoIds : ToggleTodo(token, todo_id)

\* The task store used by the two seeded users.
TodoSpec == SeededInit /\ [][TodoNext]_vars

\* ------------------------------------------------------- disabled accounts
\* GET /users/me: the dependency's user is the response.
ReadMe(token) ==
  /\ LET auth == get_current_user(token)
     IN  IF ~auth.ok THEN resp' = Denied("get_current_user_info", 0, auth)
         ELSE \E u \in users :
                /\ u.id = auth.id
                /\ resp' = Response("get_current_user_info",
                                    [caller |-> auth.id, todo_id |-> 0], 200, "",
                                    UserResponse(u))
  /\ UNCHANGED <<db, next_otp_id, next_todo_id, now, pc, loc>>

\* The is_active column is written by no route: an operator sets it in the
\* users table directly.
SetActive(user_id, flag) ==
  /\ \E u \in users : u.id = user_id /\ u.is_active # flag
  /\ users' = {IF u.id = user_id THEN [u EXCEPT !.is_active = flag] ELSE u :
                 u \in users}
  /\ UNCHANGED <<otps, todos, next_otp_id, next_todo_id, now, pc, loc, resp>>

\* A request of AuthNext to a protected route, carrying the token.
ProtectedRequest(token) ==
  \/ ReadMe(token)
  \/ CreateTodo(token, "buy milk", "False")
  \/ ReadTodos(token, 0, 100, None)
  \/ \E todo_id \in TodoIds : ReadTodo(token, todo_id)
  \/ \E todo_id \in TodoIds : UpdateTodo(token, todo_id, Unset, "True")
  \/ \E todo_id \in TodoIds : DeleteTodo(token, todo_id)
  \/ \E todo_id \in TodoIds : ToggleTodo(token, todo_id)

\* The protected routes, driven with every token and one value of the
\* fields that do not matter to the dependency.
AuthNext ==
  \/ \E user_id \in {1, 2}, flag \in BOOLEAN : SetActive(user_id, flag)
  \/ \E token \in RequestTokens : ReadMe(token)
  \/ \E token \in RequestTokens : CreateTodo(token, "buy milk", "False")
  \/ \E token \in RequestTokens : ReadTodos(token, 0, 100, None)
  \/ \E token \in RequestTokens, todo_id \in TodoIds : ReadTodo(token, todo_id)
  \/ \E token \in RequestTokens, todo_id \in TodoIds :
        UpdateTodo(token, todo_id, Unset, "True")
  \/ \E token \in RequestTokens, todo_id \in TodoIds : DeleteTodo(token, todo_id)
  \/ \E token \in RequestTokens, todo_id \in TodoIds : ToggleTodo(token, todo_id)

\* The protected routes against the seeded store, with accounts being
\* disabled and enabled.
AuthSpec == SeededInit /\ [][AuthNext]_vars

\* ------------------------------------------------------ a client's history
\* Every kind of operation, one request after the other, from the empty
\* store: register, login, the reset flow for both emails, and todos.
HistoryNext ==
  \/ RegisterCheckEmail("r1", "a@x.com", "alice", "password1")
  \/ RegisterCheckEmail("r1", "b@x.com", "bob", "password1")
  \/ RegisterCheckUsername("r1")
  \/ RegisterInsert("r1")
  \/ \E email \in RegEmails : Login("r1", email, "password1")
  \/ \E email \in RegEmails : ForgotBegin("r1", email)
  \/ ForgotCommit("r1")
  \/ \E email \in RegEmails, otp \in Codes : VerifyOtp("r1", email, otp)
  \/ \E email \in RegEmails, otp \in Codes :
        ResetRead("r1", email, otp, "password2")
  \/ ResetCommit("r1")
  \/ CreateTodo(create_access_token("a@x.com"), "buy milk", "False")
  \/ ToggleTodo(create_access_token("a@x.com"), 1)
  \/ Tick

HistorySpec == Init /\ [][HistoryNext]_vars

Next ==
  RegisterNext \/ OtpNext \/ ExpiryNext \/ TodoNext \/ AuthNext \/ HistoryNext

Spec == Init /\ [][Next]_vars

\* -------------------------------------------------------------------
\* Properties of the password-reset flow (checked under OtpSpec)
\* -------------------------------------------------------------------

IsForgotIssue(r) ==
  r.op = "forgot_password" /\ r.side.kind = "send_otp_email"

IsReset(r, status, email, otp) ==
  /\ r.op = "reset_password"
  /\ r.status = status
  /\ r.req.email = email
  /\ r.req.otp = otp

\* C1: consume is single-use.  When the request last answered was a
\* successful reset-password for (email, code), a reset-password called next
\* with the same (email, code) is answered 400 Invalid or expired OTP and
\* changes no row.
C1_SecondResetFails ==
  [][\A p \in Procs, email \in OtpEmails, otp \in Codes, pw \in Passwords :
       (IsReset(resp, 200, email, otp) /\ ResetRead(p, email, otp, pw))
         => /\ IsReset(resp', 400, email, otp)
            /\ pc'[p] = "idle"
            /\ UNCHANGED db]_vars

\* C2: a code is consumed at most once under concurrency.  A reset-password
\* that commits and answers 200 finds its OTP row still unused: no other
\* request carrying the same (email, code) succeeded before it.
C2_AtMostOneSuccess ==
  [][\A p \in Procs :
       (ResetCommit(p) /\ resp'.status = 200)
         => \E o \in otps : o.id = loc[p].otp_id /\ o.is_used = FALSE]_vars

\* C3 as stated: once a forgot-password has replaced an earlier code of the
\* email (the earlier request had committed when this one started), verify-otp
\* and reset-password with the earlier code are answered 400.
C3_FirstCodeRejected ==
  [][\A p \in Procs, email \in OtpEmails, otp \in Codes :
       ( /\ IsForgotIssue(resp)
         /\ resp.req.email = email
         /\ otp \in resp.side.replaced
         /\ \/ VerifyOtp(p, email, otp)
            \/ \E pw \in Passwords : ResetRead(p, email, otp, pw) )
         => /\ resp'.op \in {"verify_otp", "reset_password"}
            /\ resp'.status = 400]_vars

\* C3 amended: after such a forgot-password the rows it replaced are gone,
\* and verify-otp or reset-password with an earlier code is answered 400
\* unless a row issued since (by that request or one concurrent with it)
\* carries the same code; a request that is accepted matched such a row.
C3_FirstRecordInvalidated ==
  [][\A p \in Procs, email \in OtpEmails, otp \in Codes :
       ( /\ IsForgotIssue(resp)
         /\ resp.req.email = email
         /\ otp \in resp.side.replaced
         /\ \/ VerifyOtp(p, email, otp)
            \/ \E pw \in Passwords : ResetRead(p, email, otp, pw) )
         => /\ \A o \in otps : o.id \notin resp.side.deleted
            /\ \/ /\ resp'.op \in {"verify_otp", "reset_password"}
                  /\ resp'.status = 400
                  /\ \A o \in otps : ~(o.email = email /\ o.otp = otp
                                        /\ ~o.is_used /\ o.expires_at > now)
               \/ \E o \in MatchingOtps(email, otp) :
                     o.id \notin resp.side.deleted]_vars

\* C3 witness: a second forgot-password has replaced an earlier code, and
\* that earlier code no longer matches any row.
C3_Witness ==
  /\ IsForgotIssue(resp)
  /\ resp.side.replaced # {}
  /\ \A otp \in resp.side.replaced : MatchingOtps(resp.req.email, otp) = {}

ActiveOtps(email) ==
  {o \in otps : o.email = email /\ o.is_used = FALSE /\ o.expires_at > now}

\* C4: for every email at most one OTP row is active (unused, unexpired).
C4_AtMostOneActive ==
  \A email \in Emails : Cardinality(ActiveOtps(email)) <= 1

\* C5: verify-otp never mutates state.  Every verify-otp step, accepted or
\* rejected, leaves the three tables as they were, and it is accepted exactly
\* when a reset-password that followed it would find a matching row.
C5_VerifyDoesNotMutate ==
  [][\A p \in Procs, email \in OtpEmails, otp \in Codes :
       VerifyOtp(p, email, otp)
         => /\ UNCHANGED <<users, otps, todos>>
            /\ resp'.op = "verify_otp"
            /\ (resp'.status = 200) <=> (MatchingOtps(email, otp)' # {})]_vars

\* C5 witness: a verify-otp was accepted and its row is still unused.
C5_Witness ==
  /\ resp.op = "verify_otp"
  /\ resp.status = 200
  /\ MatchingOtps(resp.req.email, resp.req.otp) # {}

HashChanged(u) ==
  \E v \in users' : v.id = u.id /\ v.hashed_password # u.hashed_password

BecomesUsed(o) ==
  o.is_used = FALSE /\ \E n \in otps' : n.id = o.id /\ n.is_used = TRUE

\* C6: mark-used and overwrite-hash are one unit.  No step, a crash or a
\* failed commit included, persists one without the other: a step that turns
\* a row used rewrites the hash of that email's user, and a step that
\* rewrites a user's hash leaves a used row of that user's email.
C6_ResetAtomic ==
  [][ /\ \A o \in otps :
           BecomesUsed(o) => \E u \in users : u.email = o.email /\ HashChanged(u)
      /\ \A u \in users :
           HashChanged(u) => \E n \in otps' : /\ n.email = u.email
                                              /\ n.is_used = TRUE
                                              /\ \E o \in otps : o.id = n.id ]_vars

\* C6 witness: a reset-password has committed: its row is used and the
\* user's hash is a new one.
C6_Witness ==
  /\ resp.op = "reset_password"
  /\ resp.status = 200
  /\ \E o \in otps, u \in users :
       /\ o.email = resp.req.email
       /\ o.is_used = TRUE
       /\ u.email = o.email
       /\ u.hashed_password.salt \notin {1, 2}

\* -------------------------------------------------------------------
\* Properties of registration (checked under RegisterSpec)
\* -------------------------------------------------------------------

\* C7: no two users share an email, and no two share a username.
C7_UniqueUsers ==
  \A u \in users, v \in users :
    (u.email = v.email \/ u.username = v.username) => u = v

\* C7 witness: two users are stored and a registration that lost the race
\* was refused at insert.
C7_Witness ==
  /\ Cardinality(users) = 2
  /\ resp.op = "register"
  /\ resp.detail = "Registration failed due to database error"

EmailHeld(email) == \E u \in users : u.email = email

UsernameHeld(username) == \E u \in users : u.username = username

\* C8: a register request whose email or username is held by a stored user
\* ends with 400 and creates no user, at whichever step the duplicate is
\* found: the email check (which comes first and answers for the email even
\* when the username is taken too), the username check, or the insert.
C8_DuplicateIsConflict ==
  [][ /\ \A p \in Procs, email \in RegEmails, username \in Usernames,
           pw \in Passwords :
           (RegisterCheckEmail(p, email, username, pw) /\ EmailHeld(email))
             => /\ resp'.op = "register" /\ resp'.status = 400
                /\ resp'.detail = "Email already registered"
                /\ pc'[p] = "idle"
                /\ UNCHANGED users
      /\ \A p \in Procs :
           (RegisterCheckUsername(p) /\ UsernameHeld(loc[p].username))
             => /\ resp'.op = "register" /\ resp'.status = 400
                /\ pc'[p] = "idle"
                /\ UNCHANGED users
      /\ \A p \in Procs :
           ( /\ RegisterInsert(p)
             /\ EmailHeld(loc[p].email) \/ UsernameHeld(loc[p].username) )
             => /\ resp'.op = "register" /\ resp'.status = 400
                /\ pc'[p] = "idle"
                /\ UNCHANGED users ]_vars

\* C8 witness: a registration passed both checks, lost the race and was
\* answered 400 at insert.
C8_Witness ==
  /\ resp.op = "register"
  /\ resp.status = 400
  /\ resp.detail = "Registration failed due to database error"
  /\ EmailHeld(resp.req.email) \/ UsernameHeld(resp.req.username)

\* -------------------------------------------------------------------
\* Properties of the task store (checked under TodoSpec)
\* -------------------------------------------------------------------

OthersTodos(user_id) == {t \in todos : t.user_id # user_id}

ByIdOps ==
  {"read_todo", "update_todo", "delete_todo", "toggle_todo_status"}

\* C9: task ownership isolation.  A request authenticated as user B changes
\* and removes no task of another user and returns none in its body; a by-id
\* request of B that names another user's task is answered exactly as one
\* that names an id no task has: 404 Todo not found, with no body.
C9_OwnershipIsolation ==
  [][\A B \in {u.id : u \in users} :
       (resp'.op \in ByIdOps \cup {"read_todos", "create_todo"}
          /\ resp'.req.caller = B)
         => /\ OthersTodos(B) \subseteq todos'
            /\ resp'.body.kind = "todo" => resp'.body.user_id = B
            /\ resp'.body.kind = "todos"
                 => \A i \in DOMAIN resp'.body.items :
                      resp'.body.items[i].user_id = B
            /\ (resp'.op \in ByIdOps
                 /\ \E t \in OthersTodos(B) : t.id = resp'.req.todo_id)
                 => /\ resp'.status = 404
                    /\ resp'.detail = "Todo not found"
                    /\ resp'.body = NoBody
                    /\ resp'.side = NoBody
                    /\ UNCHANGED todos]_vars

\* C9 witness: a by-id request was answered 404 although the id names a
\* task, one owned by another user.
C9_Witness ==
  /\ resp.op \in ByIdOps
  /\ resp.status = 404
  /\ \E t \in todos : t.id = resp.req.todo_id /\ t.user_id # resp.req.caller

\* C10: toggling twice is the identity.  When the request last answered was
\* a toggle of a task and its owner toggles it again, the completed flag is
\* back at the value it had before the first of the two.
C10_ToggleTwiceIdentity ==
  [][\A token \in RequestTokens, todo_id \in TodoIds :
       ( /\ resp.op = "toggle_todo_status"
         /\ resp.status = 200
         /\ resp.req.todo_id = todo_id
         /\ ToggleTodo(token, todo_id)
         /\ resp'.status = 200 )
         => resp'.body.completed = resp.side.before]_vars
\* -------------------------------------------------------------------
\* Anti-enumeration of forgot-password (checked under OtpSpec)
\* -------------------------------------------------------------------

\* What the client of forgot-password sees: status line and JSON body.
ForgotAnswer(r) == [status |-> r.status, detail |-> r.detail, body |-> r.body]

GenericAnswer == [status |-> 200, detail |-> GenericMessage, body |-> NoBody]

\* C11: forgot-password answers an unregistered and a registered email with
\* the same 200 and the same generic message; for an unregistered email it
\* inserts no OTP row and schedules no email, for a registered email it
\* inserts exactly one OTP row, for that email, and schedules one email.
C11_AntiEnumeration ==
  [][/\ \A p \in Procs, email \in OtpEmails :
          (ForgotBegin(p, email) /\ UserByEmail(email) = {})
            => /\ resp'.op = "forgot_password"
               /\ resp'.req.email = email
               /\ ForgotAnswer(resp') = GenericAnswer
               /\ resp'.side = NoBody
               /\ otps' = otps
               /\ pc'[p] = "idle"
     /\ \A p \in Procs, email \in OtpEmails :
          (ForgotBegin(p, email) /\ UserByEmail(email) # {})
            => /\ otps' = otps
               /\ resp' = resp
               /\ pc'[p] = "fp_commit"
     /\ \A p \in Procs :
          ForgotCommit(p)
            => /\ UserByEmail(loc[p].email) # {}
               /\ resp'.op = "forgot_password"
               /\ resp'.req.email = loc[p].email
               /\ ForgotAnswer(resp') = GenericAnswer
               /\ resp'.side.kind = "send_otp_email"
               /\ resp'.side.recipient_email = loc[p].email
               /\ Cardinality(otps' \ otps) = 1
               /\ \A o \in otps' \ otps :
                    /\ o.email = loc[p].email
                    /\ o.otp = resp'.side.otp
                    /\ ~o.is_used]_vars

\* C11 witness: the unregistered email has just been answered with the
\* generic message while the registered one holds the row its own request
\* inserted; no row exists for the unregistered email.
C11_Witness ==
  /\ resp.op = "forgot_password"
  /\ resp.req.email = "c@x.com"
  /\ ForgotAnswer(resp) = GenericAnswer
  /\ \E o \in otps : o.email = "a@x.com"
  /\ \A o \in otps : o.email # "c@x.com"

\* -------------------------------------------------------------------
\* Properties of the authorization dependency (checked under AuthSpec)
\* -------------------------------------------------------------------

\* The token is well signed and unexpired and its subject is a stored user
\* whose is_active is false.
DisabledCaller(token) ==
  /\ jwt_decode(token) # None
  /\ \E u \in UserByEmail(jwt_decode(token)) : ~u.is_active

\* C12: a protected request with a valid token of a disabled user is
\* answered 403 Forbidden, neither the 401 of a bad token nor a 400, and the
\* handler does not run (the store is unchanged).
C12_DisabledIsForbidden ==
  [][\A token \in RequestTokens :
       (DisabledCaller(token) /\ ProtectedRequest(token))
         => /\ resp'.status = 403
            /\ resp'.body = NoBody
            /\ UNCHANGED db]_vars

\* What the dependency does for such a request: the handler does not run,
\* and the answer is 400 "Inactive user".
C12_DisabledIsBadRequest ==
  [][\A token \in RequestTokens :
       (DisabledCaller(token) /\ ProtectedRequest(token))
         => /\ resp'.status = 400
            /\ resp'.detail = "Inactive user"
            /\ resp'.body = NoBody
            /\ UNCHANGED db]_vars

\* A disabled user has just been refused.
C12_Reached ==
  /\ resp.detail = "Inactive user"
  /\ \E u \in users : ~u.is_active

\* -------------------------------------------------------------------
\* The OTP time box (checked under ExpirySpec)
\* -------------------------------------------------------------------

\* The rows a request with (email, otp) may be accepted on at this instant:
\* unused, and now strictly before the expiry.
InTimeBox(email, otp) ==
  {o \in otps : o.email = email /\ o.otp = otp /\ ~o.is_used /\ now < o.expires_at}

\* C13: a row issued at time t expires at t + 15 and is unused; verify-otp
\* and reset-password accept (email, code) only on an unused row with now
\* strictly before its expiry; otherwise both answer 400 "Invalid or expired
\* OTP" and reset-password writes neither the hash nor the used flag.
C13_TimeBox ==
  [][/\ \A email \in OtpEmails :
          (ForgotBegin("r1", email) /\ UserByEmail(email) # {})
            => loc'["r1"].expires_at = now + 15
     /\ ForgotCommit("r1")
          => \A o \in otps' \ otps :
               o.expires_at = loc["r1"].expires_at /\ ~o.is_used
     /\ \A email \in OtpEmails, otp \in Codes :
          VerifyOtp("r1", email, otp)
            => /\ resp'.op = "verify_otp"
               /\ IF InTimeBox(email, otp) # {}
                    THEN resp'.status = 200
                    ELSE /\ resp'.status = 400
                         /\ resp'.detail = "Invalid or expired OTP"
     /\ \A email \in OtpEmails, otp \in Codes, pw \in Passwords :
          ResetRead("r1", email, otp, pw)
            => IF InTimeBox(email, otp) # {}
                 THEN /\ pc'["r1"] = "rp_commit"
                      /\ loc'["r1"].otp_id \in {o.id : o \in InTimeBox(email, otp)}
                 ELSE /\ resp'.op = "reset_password"
                      /\ resp'.status = 400
                      /\ resp'.detail = "Invalid or expired OTP"
                      /\ pc'["r1"] = "idle"
                      /\ UNCHANGED db]_vars

\* C13 witness: reset-password has just been refused for a code whose unused
\* row reached its expiry at this very minute.
C13_Witness ==
  /\ resp.op = "reset_password"
  /\ resp.status = 400
  /\ \E o \in otps : /\ o.email = resp.req.email
                     /\ o.otp = resp.req.otp
                     /\ ~o.is_used
                     /\ now = o.expires_at

\* -------------------------------------------------------------------
\* Who changes a password hash (checked under HistorySpec)
\* -------------------------------------------------------------------

\* The step is the commit of a reset-password that presented the email and
\* holds a row issued for that email, answered 200.
ResetCommitFor(p, email) ==
  /\ ResetCommit(p)
  /\ loc[p].email = email
  /\ \E o \in otps : /\ o.id = loc[p].otp_id
                     /\ o.email = email
                     /\ o.otp = loc[p].otp
  /\ \E otp \in Codes : IsReset(resp', 200, email, otp)

\* C14: the hash of a stored user changes only in a reset-password that
\* presented that user's email together with an unused, unexpired OTP row
\* issued for that email; the same holds for a row's used flag.  A
\* reset-password answered 400 or 404 changes neither table, and no other
\* operation (register, login, forgot-password, verify-otp, todos) changes
\* a stored hash.
C14_HashOnlyByReset ==
  [][/\ \A u \in users, v \in users' :
          (v.id = u.id /\ v.hashed_password # u.hashed_password)
            => \E p \in Procs :
                 ResetCommitFor(p, u.email) /\ loc[p].user_id = u.id
     /\ \A o \in otps, n \in otps' :
          (n.id = o.id /\ n.is_used # o.is_used)
            => \E p \in Procs :
                 ResetCommitFor(p, o.email) /\ loc[p].otp_id = o.id
     /\ \A p \in Procs, email \in RegEmails, otp \in Codes, pw \in Passwords :
          ResetRead(p, email, otp, pw)
            => \/ /\ pc'[p] = "rp_commit"
                  /\ loc'[p].email = email
                  /\ loc'[p].otp_id \in {o.id : o \in InTimeBox(email, otp)}
                  /\ loc'[p].user_id \in {u.id : u \in UserByEmail(email)}
                  /\ UNCHANGED db
               \/ /\ resp'.op = "reset_password"
                  /\ resp'.status \in {400, 404}
                  /\ pc'[p] = "idle"
                  /\ UNCHANGED db
     /\ \A u \in users : \E v \in users' : v.id = u.id /\ v.email = u.email]_vars

\* C14 witness: the first user's password has just been reset with the code
\* issued for her email, while an unused code issued for the second user's
\* email is in the table.
C14_Witness ==
  /\ \E otp \in Codes : IsReset(resp, 200, "a@x.com", otp)
  /\ \E o \in otps : o.email = "a@x.com" /\ o.is_used
  /\ \E o \in otps : o.email = "b@x.com" /\ ~o.is_used
  /\ \E u \in users : u.email = "b@x.com"

====
